---- MODULE Spec2Model ----
(***************************************************************************)
(* Model of two pieces of NeMo:                                            *)
(*   nemo/lightning/pytorch/callbacks/memory_profiler.py                   *)
(*       MemoryProfileCallback: __init__, enable_on_rank, setup,           *)
(*       _dump_memory_snapshot, on_train_batch_start, on_train_end         *)
(*   examples/llm/slimpajama/data/preprocess.py                            *)
(*       execute_cmd, preprocess_data                                      *)
(*                                                                         *)
(* Python values.  An Optional[int] is a tuple: <<>> is None, <<n>> is n.  *)
(* A str that names a path is the tuple of its "/"-separated components:   *)
(* <<"">> is the empty string, <<>> is None.  An object whose type matters *)
(* is a record [type, v].                                                  *)
(***************************************************************************)
EXTENDS Integers, Sequences, FiniteSets, TLC

\* ------------------------------------------------------------------ bounds
MaxRank == 1
MaxInterval == 2
MaxBatches == 4
MaxListing == 3
MaxPoolCmds == 5
MaxCpu == 2

VARIABLES
    \* ---- MemoryProfileCallback and the process it lives in
    cb_pc,          \* "new" | "constructed" | "init_failed" | "setup_done" | "ended"
    classInterval,  \* a class-level `interval` found through the MRO before __init__
                    \* assigns the field: absent for the class as written
    argInterval,    \* the `interval` argument of __init__
    argRanks,       \* the `ranks` argument of __init__
    ranks,          \* self.ranks
    interval,       \* self.interval
    step,           \* self.step
    distInit,       \* torch.distributed.is_initialized()
    myRank,         \* get_rank()
    recording,      \* torch.cuda.memory: memory-history recording is active
    everRecorded,   \* _record_memory_history(max_entries=...) has been called
    snapshots,      \* the snapshot files written, oldest first
    err,            \* the exception the last hook call raised, "none" if it returned
    batchCalls,     \* number of on_train_batch_start calls made so far
    warned,         \* setup logged the max_steps warning
    \* ---- one call of preprocess_data
    pp_pc,          \* "call" | "pool" | "returned" | "raised"
    argNumTasks,    \* the num_tasks argument (Optional[int])
    argTaskId,      \* the task_id argument (Optional[int])
    environ,        \* os.environ: SLURM_ARRAY_TASK_COUNT and SLURM_ARRAY_TASK_ID
    listing,        \* the *.jsonl entries of data_dir that get_shard_list splits
    vocab_file_path,
    merges_file_path,
    extra_args,     \* Optional[list[str]]
    cpu_count,      \* multiprocessing.cpu_count()
    num_tasks,      \* the local num_tasks once resolved
    task_id,        \* the local task_id once resolved
    outDirMade,     \* os.makedirs(output_dir) has run
    final_cmds,     \* the (command, task_id) tuples handed to the pool
    cmdState,       \* per command: "pending" | "running" | "done" | "raised" | "skipped"
    started,        \* per command: how many subprocesses were started for it
    exitCode,       \* per command: the exit status of its subprocess (Optional[int])
    pp_err          \* the exception preprocess_data raised, "none" if none

cbVars == <<cb_pc, classInterval, argInterval, argRanks, ranks, interval, step,
            distInit, myRank, recording, everRecorded, snapshots, err,
            batchCalls, warned>>

ppVars == <<pp_pc, argNumTasks, argTaskId, environ, listing, vocab_file_path,
            merges_file_path, extra_args, cpu_count, num_tasks, task_id,
            outDirMade, final_cmds, cmdState, started, exitCode, pp_err>>

vars == <<cbVars, ppVars>>

\* ------------------------------------------------------------ Python values
None == <<>>
PyInt(n) == [type |-> "int", v |-> n]
PyFloat(n) == [type |-> "float", v |-> n]
AttrAbsent == [type |-> "absent", v |-> 0]
isinstance_int(x) == x.type = "int"

Ranks == 0..MaxRank
IntervalArgs == {PyInt(n) : n \in -1..MaxInterval} \cup {PyFloat(2)}

\* Names a function body of memory_profiler.py can resolve: the module's
\* imports and its class, plus the function's own parameters.
ModuleGlobals ==
    {"os", "torch", "Callback", "warn_tensor_cycles", "io", "logging",
     "get_rank", "MemoryProfileCallback"}
BatchStartLocals == {"self", "trainer", "pl_module", "batch", "batch_idx", "unused"}
NameResolves(name, locals) == name \in locals \cup ModuleGlobals

\* ------------------------------------------------- MemoryProfileCallback
\* __init__: prof_dir and ranks are stored, then line 47 reads self.interval
\* BEFORE line 48 assigns it.  The read finds the instance attribute if set
\* (it is not), else a class-level attribute, else raises AttributeError.
MemoryProfileCallback__init__ ==
    /\ cb_pc = "new"
    /\ ranks' = argRanks
    /\ LET seen == IF interval.type # "absent" THEN interval ELSE classInterval
       IN  IF seen.type = "absent"
             THEN /\ err' = "AttributeError"
                  /\ cb_pc' = "init_failed"
                  /\ UNCHANGED <<interval, step>>
           ELSE IF ~isinstance_int(seen)
             THEN /\ err' = "AssertionError"
                  /\ cb_pc' = "init_failed"
                  /\ UNCHANGED <<interval, step>>
           ELSE /\ err' = "none"
                /\ cb_pc' = "constructed"
                /\ interval' = argInterval
                /\ step' = <<0>>
    /\ UNCHANGED <<classInterval, argInterval, argRanks, distInit, myRank,
                   recording, everRecorded, snapshots, batchCalls, warned>>
    /\ UNCHANGED ppVars

\* Variant: the rank list is never consulted.
enable_on_rank_always == TRUE

enable_on_rank ==
    IF ranks = {} \/ ~distInit THEN TRUE ELSE myRank \in ranks

setup ==
    /\ cb_pc = "constructed"
    /\ \E max_steps \in {1000, 1001} : warned' = (max_steps > 1000)
    /\ IF distInit /\ enable_on_rank
         THEN recording' = TRUE /\ everRecorded' = TRUE
         ELSE UNCHANGED <<recording, everRecorded>>
    /\ err' = "none"
    /\ cb_pc' = "setup_done"
    /\ UNCHANGED <<classInterval, argInterval, argRanks, ranks, interval, step,
                   distInit, myRank, snapshots, batchCalls>>
    /\ UNCHANGED ppVars

\* Path of a snapshot file: prof_dir is fixed, the name carries the rank and,
\* for an interval snapshot, the step.
RankPath(rank) == [rank |-> rank, iter |-> None]
RankIterPath(rank, s) == [rank |-> rank, iter |-> <<s>>]

\* _dump_memory_snapshot(_snapshot_path, rank): the conjunct over snapshots
\* and recording.  path = None stands for the default _snapshot_path.
_dump_memory_snapshot(path) ==
    LET rank == myRank
        p == IF path = None THEN RankPath(rank) ELSE path[1]
    IN  /\ snapshots' = Append(snapshots, [path |-> p, recorded |-> recording])
        /\ recording' = FALSE

on_train_batch_start ==
    /\ cb_pc = "setup_done"
    /\ batchCalls < MaxBatches
    /\ batchCalls' = batchCalls + 1
    /\ IF interval.v <= 0
         THEN /\ err' = "none"
              /\ UNCHANGED <<step, snapshots, recording>>
       ELSE IF step[1] % interval.v = 0 /\ enable_on_rank
         THEN IF ~NameResolves("rank", BatchStartLocals)
                THEN /\ err' = "NameError"
                     /\ UNCHANGED <<step, snapshots, recording>>
              ELSE /\ _dump_memory_snapshot(<<RankIterPath(myRank, step[1])>>)
                   /\ step' = <<step[1] + 1>>
                   /\ err' = "none"
       ELSE /\ step' = <<step[1] + 1>>
            /\ err' = "none"
            /\ UNCHANGED <<snapshots, recording>>
    /\ UNCHANGED <<cb_pc, classInterval, argInterval, argRanks, ranks, interval,
                   distInit, myRank, everRecorded, warned>>
    /\ UNCHANGED ppVars

\* Variant: the final dump is also gated on an initialized distributed context.
on_train_end_distributed_only ==
    /\ cb_pc = "setup_done"
    /\ IF distInit /\ enable_on_rank
         THEN _dump_memory_snapshot(None)
         ELSE UNCHANGED <<snapshots, recording>>
    /\ err' = "none"
    /\ cb_pc' = "ended"
    /\ UNCHANGED <<classInterval, argInterval, argRanks, ranks, interval, step,
                   distInit, myRank, everRecorded, batchCalls, warned>>
    /\ UNCHANGED ppVars

on_train_end ==
    /\ cb_pc = "setup_done"
    /\ IF enable_on_rank
         THEN _dump_memory_snapshot(None)
         ELSE UNCHANGED <<snapshots, recording>>
    /\ err' = "none"
    /\ cb_pc' = "ended"
    /\ UNCHANGED <<classInterval, argInterval, argRanks, ranks, interval, step,
                   distInit, myRank, everRecorded, batchCalls, warned>>
    /\ UNCHANGED ppVars

CbNext ==
    \/ MemoryProfileCallback__init__
    \/ setup
    \/ on_train_batch_start
    \/ on_train_end

\* --------------------------------------------------------- preprocess.py
\* Python truthiness of an Optional[str], an Optional[int], an Optional[list].
\* Variant: only None counts as empty.
TruthyStr_not_none(x) == x # None
TruthyStr(x) == x # None /\ x # <<"">>
TruthyInt(x) == x # None /\ x # <<0>>
TruthyList(x) == x # None /\ x # <<<<>>>>

\* int(s) for a string of decimal digits, given as the tuple of its digits.
RECURSIVE int(_)
int(ds) == IF ds = <<>> THEN 0 ELSE 10 * int(SubSeq(ds, 1, Len(ds) - 1)) + ds[Len(ds)]

\* os.path.basename and os.path.join on "/"-split paths; join is applied to a
\* second argument without "/" only.
basename(p) == p[Len(p)]
join(a, b) ==
    IF a = <<"">> THEN <<b>>
    ELSE IF a[Len(a)] = "" THEN SubSeq(a, 1, Len(a) - 1) \o <<b>>
    ELSE a \o <<b>>

data_dir == <<"data">>
output_dir == <<"out", "tok">>
dataset_impl == <<"mmap">>
tokenizer_type == <<"GPT2BPETokenizer">>
tokenizer_library == <<"megatron">>

\* A command-line word: "name=value" is [flag |-> name, val |-> value], a bare
\* word has val = None.
Word(w) == [flag |-> w, val |-> None]
Flag(name, value) == [flag |-> name, val |-> value]
cmd ==
    <<Word("python"),
      Word("/opt/NeMo/scripts/nlp_language_modeling/preprocess_data_for_megatron.py")>>

ShardA == data_dir \o <<"a.jsonl">>
ShardB == data_dir \o <<"b.jsonl">>
ShardName(i) == data_dir \o <<[type |-> "shard", v |-> i]>>
Entries == {ShardA, ShardB, <<"">>, None}
NoRepeat(l) ==
    \A i, j \in 1..Len(l) : (i # j /\ TruthyStr(l[i])) => l[i] # l[j]
Listings ==
    {l \in UNION {[1..n -> Entries] : n \in 0..MaxListing} : NoRepeat(l)}
PoolListings ==
    {[i \in 1..n |-> ShardName(i)] : n \in 0..MaxPoolCmds}

\* get_shard_list(data_dir, num_tasks, extension): the entries of data_dir cut
\* into num_tasks consecutive buckets.
get_shard_list(entries, n) ==
    [b \in 1..n |->
        SubSeq(entries, ((b - 1) * Len(entries)) \div n + 1, (b * Len(entries)) \div n)]

\* shards_to_extract[task_id]: what the subscript raises, and what it yields.
SubscriptError(buckets, tid) ==
    IF tid = None THEN "TypeError"
    ELSE IF tid[1] >= Len(buckets) THEN "IndexError"
    ELSE "none"
\* Variant: the first bucket whatever the task.
Subscript_first(buckets, tid) == buckets[1]
Subscript(buckets, tid) == buckets[tid[1] + 1]

\* Lines 46-52: the (num_tasks, task_id) pair used, or the error raised.
ResolveTasks(nt, tid, env) ==
    IF TruthyInt(nt) THEN [err |-> "none", num_tasks |-> nt, task_id |-> tid]
    ELSE IF env.SLURM_ARRAY_TASK_COUNT # None
      THEN IF env.SLURM_ARRAY_TASK_ID = None
             THEN [err |-> "KeyError", num_tasks |-> <<int(env.SLURM_ARRAY_TASK_COUNT[1])>>,
                   task_id |-> tid]
           ELSE [err |-> "none",
                 num_tasks |-> <<int(env.SLURM_ARRAY_TASK_COUNT[1])>>,
                 task_id |-> <<int(env.SLURM_ARRAY_TASK_ID[1])>>]
    ELSE [err |-> "none", num_tasks |-> <<1>>, task_id |-> <<0>>]

\* Variant: one file is enough.
WithEitherTokenizerFile(vocab, merges) == TruthyStr(vocab) \/ TruthyStr(merges)

\* Line 76: the condition guarding the three tokenizer-file flags.
WithTokenizerFiles(vocab, merges) == TruthyStr(vocab) /\ TruthyStr(merges)

\* Lines 66-86: the (final_cmd, task_id) tuple of one non-empty split.
CommandFor(split, vocab, merges, extra, tid) ==
    LET output_arg == join(output_dir, basename(split))
        flags ==
            <<Flag("--input", split),
              Flag("--output-prefix", output_arg),
              Flag("--dataset-impl", dataset_impl),
              Flag("--tokenizer-library", tokenizer_library),
              Flag("--tokenizer-type", tokenizer_type)>>
            \o (IF WithTokenizerFiles(vocab, merges)
                  THEN <<Flag("--vocab", vocab),
                         Flag("--merge-file", merges),
                         Word("--append-eod")>>
                  ELSE <<>>)
        final_cmd == (cmd \o flags) \o (IF TruthyList(extra) THEN extra[1] ELSE <<>>)
    IN  [cmd |-> final_cmd, task_id |-> tid[1]]

\* Lines 61-86: the loop over shard_files.
RECURSIVE BuildCmds(_, _, _, _, _)
BuildCmds(shard_files, vocab, merges, extra, tid) ==
    IF shard_files = <<>> THEN <<>>
    ELSE LET split == Head(shard_files)
             rest == BuildCmds(Tail(shard_files), vocab, merges, extra, tid)
         IN  IF ~TruthyStr(split) THEN rest
             ELSE <<CommandFor(split, vocab, merges, extra, tid)>> \o rest

ExtraWord == Flag("--log-interval", <<"100">>)
SomePath(name) == <<"", "tokenizer", name>>

PpInputs(nts, tids, counts, ids, ls, vs, ms, es, cpus) ==
    /\ argNumTasks \in nts
    /\ argTaskId \in tids
    /\ environ \in [SLURM_ARRAY_TASK_COUNT : counts, SLURM_ARRAY_TASK_ID : ids]
    /\ listing \in ls
    /\ vocab_file_path \in vs
    /\ merges_file_path \in ms
    /\ extra_args \in es
    /\ cpu_count \in cpus

ppInputVars == <<argNumTasks, argTaskId, environ, listing, vocab_file_path,
                 merges_file_path, extra_args, cpu_count>>

\* preprocess_data, lines 46-86: resolve the task, pick the bucket, build the
\* commands.
preprocess_data ==
    /\ pp_pc = "call"
    /\ LET r == ResolveTasks(argNumTasks, argTaskId, environ)
       IN  /\ num_tasks' = r.num_tasks
           /\ task_id' = r.task_id
           /\ IF r.err # "none"
                THEN /\ pp_pc' = "raised"
                     /\ pp_err' = r.err
                     /\ UNCHANGED <<outDirMade, final_cmds, cmdState, started, exitCode>>
              ELSE LET shards_to_extract == get_shard_list(listing, r.num_tasks[1])
                       e == SubscriptError(shards_to_extract, r.task_id)
                   IN  IF e # "none"
                         THEN /\ pp_pc' = "raised"
                              /\ pp_err' = e
                              /\ UNCHANGED <<outDirMade, final_cmds, cmdState,
                                             started, exitCode>>
                       ELSE LET shard_files == Subscript(shards_to_extract, r.task_id)
                                cmds == BuildCmds(shard_files, vocab_file_path,
                                                  merges_file_path, extra_args, r.task_id)
                            IN  /\ outDirMade' = TRUE
                                /\ final_cmds' = cmds
                                /\ cmdState' = [i \in 1..Len(cmds) |-> "pending"]
                                /\ started' = [i \in 1..Len(cmds) |-> 0]
                                /\ exitCode' = [i \in 1..Len(cmds) |-> None]
                                /\ pp_pc' = "pool"
                                /\ pp_err' = "none"
    /\ UNCHANGED ppInputVars
    /\ UNCHANGED cbVars

\* pool.map(execute_cmd, final_cmds): the commands are cut into consecutive
\* chunks, a pool of cpu_count workers takes the chunks in order, and a worker
\* runs its chunk one command after the other.
chunksize ==
    LET n == Len(final_cmds)
        q == n \div (4 * cpu_count)
    IN  IF n % (4 * cpu_count) = 0 THEN (IF q = 0 THEN 1 ELSE q) ELSE q + 1
ChunkOf(i) == (i - 1) \div chunksize
FirstOfChunk(i) == (i - 1) % chunksize = 0
ChunkTaken(c) ==
    \E i \in 1..Len(final_cmds) :
        ChunkOf(i) = c /\ FirstOfChunk(i) /\ cmdState[i] # "pending"
ChunkBusy(c) ==
    /\ ChunkTaken(c)
    /\ \E i \in 1..Len(final_cmds) :
          ChunkOf(i) = c /\ cmdState[i] \in {"running", "pending"}

\* Variant: subprocess.call, which reports the status and raises nothing.
call_never_raises(code) == FALSE

\* subprocess.check_call raises CalledProcessError on a non-zero exit status.
check_call_raises(code) == code # 0

\* execute_cmd up to the start of the subprocess.
execute_cmd_start(i) ==
    /\ pp_pc = "pool"
    /\ cmdState[i] = "pending"
    /\ IF FirstOfChunk(i)
         THEN /\ \A j \in 1..(i - 1) : cmdState[j] # "pending" \/ ~FirstOfChunk(j)
              /\ Cardinality({c \in 0..ChunkOf(Len(final_cmds)) : ChunkBusy(c)}) < cpu_count
         ELSE cmdState[i - 1] = "done"
    /\ cmdState' = [cmdState EXCEPT ![i] = "running"]
    /\ started' = [started EXCEPT ![i] = @ + 1]
    /\ UNCHANGED <<pp_pc, num_tasks, task_id, outDirMade, final_cmds, exitCode, pp_err>>
    /\ UNCHANGED ppInputVars
    /\ UNCHANGED cbVars

\* execute_cmd from the exit of the subprocess: check_call returns or raises;
\* a raise ends the worker's chunk.
execute_cmd_finish(i, code) ==
    /\ pp_pc = "pool"
    /\ cmdState[i] = "running"
    /\ exitCode' = [exitCode EXCEPT ![i] = <<code>>]
    /\ IF check_call_raises(code)
         THEN cmdState' =
                 [j \in 1..Len(cmdState) |->
                    IF j = i THEN "raised"
                    ELSE IF j > i /\ ChunkOf(j) = ChunkOf(i) THEN "skipped"
                    ELSE cmdState[j]]
         ELSE cmdState' = [cmdState EXCEPT ![i] = "done"]
    /\ UNCHANGED <<pp_pc, num_tasks, task_id, outDirMade, final_cmds, started, pp_err>>
    /\ UNCHANGED ppInputVars
    /\ UNCHANGED cbVars

\* pool.map returns once every chunk is finished, and re-raises a worker's
\* exception; preprocess_data does not catch it.
pool_map_done ==
    /\ pp_pc = "pool"
    /\ \A i \in 1..Len(cmdState) : cmdState[i] \in {"done", "raised", "skipped"}
    /\ IF \E i \in 1..Len(cmdState) : cmdState[i] = "raised"
         THEN pp_pc' = "raised" /\ pp_err' = "CalledProcessError"
         ELSE pp_pc' = "returned" /\ pp_err' = "none"
    /\ UNCHANGED <<num_tasks, task_id, outDirMade, final_cmds, cmdState, started, exitCode>>
    /\ UNCHANGED ppInputVars
    /\ UNCHANGED cbVars

PpNext ==
    \/ preprocess_data
    \/ \E i \in 1..Len(final_cmds) : execute_cmd_start(i)
    \/ \E i \in 1..Len(final_cmds), code \in {0, 1} : execute_cmd_finish(i, code)
    \/ pool_map_done

\* The state before the first call, for each program on its own; the other
\* program's variables stay at one value.
PpStart ==
    /\ pp_pc = "call"
    /\ num_tasks = None
    /\ task_id = None
    /\ outDirMade = FALSE
    /\ final_cmds = <<>>
    /\ cmdState = <<>>
    /\ started = <<>>
    /\ exitCode = <<>>
    /\ pp_err = "none"

InitCallback ==
    /\ cb_pc = "new"
    /\ classInterval \in {AttrAbsent, PyInt(0), PyFloat(2)}
    /\ argInterval \in IntervalArgs
    /\ argRanks \in SUBSET Ranks
    /\ distInit \in BOOLEAN
    /\ myRank \in Ranks
    /\ ranks = {} /\ interval = AttrAbsent /\ step = None
    /\ recording = FALSE /\ everRecorded = FALSE /\ snapshots = <<>>
    /\ err = "none" /\ batchCalls = 0 /\ warned = FALSE
    /\ PpInputs({None}, {None}, {None}, {None}, {<<>>}, {None}, {None}, {None}, {1})
    /\ PpStart

\* The inputs of one call, enumerated in three families: the task parameters
\* and the environment; the tokenizer files and passthrough arguments; the
\* size of the pool against the number of commands.
InitPreprocess ==
    /\ \/ PpInputs({None, <<0>>, <<1>>, <<2>>}, {None, <<0>>, <<1>>},
                   {None, <<<<1>>>>, <<<<2>>>>}, {None, <<<<0>>>>, <<<<0, 1>>>>},
                   Listings, {None}, {None}, {None}, {MaxCpu})
       \/ PpInputs({None}, {None}, {None}, {None}, Listings,
                   {None, <<"">>, SomePath("vocab.json")},
                   {None, <<"">>, SomePath("merges.txt")},
                   {None, <<<<>>>>, <<<<ExtraWord>>>>}, {MaxCpu})
       \/ PpInputs({None}, {None}, {None}, {None}, PoolListings,
                   {None}, {None}, {None}, 1..MaxCpu)
    /\ PpStart
    /\ cb_pc = "new"
    /\ classInterval = AttrAbsent /\ argInterval = PyInt(0) /\ argRanks = {}
    /\ distInit = FALSE /\ myRank = 0
    /\ ranks = {} /\ interval = AttrAbsent /\ step = None
    /\ recording = FALSE /\ everRecorded = FALSE /\ snapshots = <<>>
    /\ err = "none" /\ batchCalls = 0 /\ warned = FALSE

SpecCallback == InitCallback /\ [][CbNext]_vars
SpecPreprocess == InitPreprocess /\ [][PpNext]_vars

\* ------------------------------------------------------ callback properties
Accepted == enable_on_rank
TrainEndStep == cb_pc = "setup_done" /\ cb_pc' = "ended"
BatchStartStep == batchCalls' = batchCalls + 1

\* C1: on a process that enable_on_rank() accepts, the on_train_end call
\* appends exactly one snapshot, written to the rank-only path
\* memory_snapshot-rank<rank>.pickle, whatever the interval and however many
\* on_train_batch_start calls came before.
C1_TrainEndWritesOneSnapshot ==
    [][(TrainEndStep /\ Accepted) =>
          /\ Len(snapshots') = Len(snapshots) + 1
          /\ snapshots'[Len(snapshots')].path = RankPath(myRank)
          /\ SubSeq(snapshots', 1, Len(snapshots)) = snapshots]_vars

C1_Witness ==
    /\ cb_pc = "ended"
    /\ Accepted
    /\ interval.v > 0
    /\ batchCalls >= 2
    /\ Len(snapshots) = 1
    /\ snapshots[1].path = RankPath(myRank)

\* C2 (as claimed): on an accepted process the k-th on_train_batch_start call
\* returns normally, writes a snapshot iff interval > 0 and k is a multiple of
\* interval, leaves step alone when interval <= 0 and adds one to it when
\* interval > 0.
C2_BatchStartAsClaimed ==
    [][(BatchStartStep /\ Accepted) =>
          /\ err' = "none"
          /\ (Len(snapshots') = Len(snapshots) + 1)
                <=> (interval.v > 0 /\ batchCalls % (IF interval.v > 0 THEN interval.v ELSE 1) = 0)
          /\ Len(snapshots') \in {Len(snapshots), Len(snapshots) + 1}
          /\ interval.v <= 0 => step' = step
          /\ interval.v > 0 => step' = <<step[1] + 1>>]_vars

\* C3: in an initialized distributed context, a process whose rank is not in
\* a non-empty ranks list never starts recording and never writes a snapshot;
\* a process whose rank is listed, or any process when ranks is empty, has
\* started recording once setup returned and has written a snapshot once
\* on_train_end returned.
C3_RankFilter ==
    (distInit /\ cb_pc \in {"constructed", "setup_done", "ended"}) =>
        IF ranks # {} /\ myRank \notin ranks
          THEN ~everRecorded /\ ~recording /\ snapshots = <<>>
          ELSE /\ cb_pc \in {"setup_done", "ended"} => everRecorded
               /\ cb_pc = "ended" => Len(snapshots) >= 1

C3_Witness ==
    /\ distInit
    /\ ranks # {}
    /\ myRank \notin ranks
    /\ cb_pc = "ended"
    /\ interval.v > 0
    /\ batchCalls >= 2
    /\ snapshots = <<>>

\* C9 (as claimed): every snapshot is written while memory-history recording
\* is active on the process.
C9_RecordingActiveAtDump ==
    \A i \in 1..Len(snapshots) : snapshots[i].recorded

\* C10 (as claimed): for the class as written, constructing with an integer
\* interval succeeds and stores interval and ranks with step = 0; construction
\* fails only with the assertion error and only for a non-integer interval.
C10_ConstructAsClaimed ==
    (classInterval = AttrAbsent /\ cb_pc # "new") =>
        /\ isinstance_int(argInterval) =>
              /\ cb_pc # "init_failed"
              /\ interval = argInterval
              /\ ranks = argRanks
              /\ (cb_pc = "constructed" => step = <<0>>)
        /\ cb_pc = "init_failed" =>
              (err = "AssertionError" /\ ~isinstance_int(argInterval))
\* ---------------------------------------------------- preprocess properties
Built == outDirMade
IsEmptyEntry(e) == e = None \/ e = <<"">>
RECURSIVE NonEmptyEntries(_)
NonEmptyEntries(l) ==
    IF l = <<>> THEN <<>>
    ELSE IF IsEmptyEntry(Head(l)) THEN NonEmptyEntries(Tail(l))
    ELSE <<Head(l)>> \o NonEmptyEntries(Tail(l))
FlagIdx(c, name) == {k \in 1..Len(c) : c[k].flag = name}
InputsOf(cmds) ==
    UNION {{cmds[i].cmd[k].val : k \in FlagIdx(cmds[i].cmd, "--input")} : i \in 1..Len(cmds)}
\* The shards task t turns into commands, for a listing cut into n buckets.
ProcessedShards(entries, n, t) ==
    InputsOf(BuildCmds(Subscript(get_shard_list(entries, n), <<t>>),
                       vocab_file_path, merges_file_path, extra_args, <<t>>))

C5_ResolutionAsClaimed ==
    (pp_pc # "call" /\ pp_err # "KeyError") =>
        LET env == environ
            fromEnv == argNumTasks = None /\ argTaskId = None
                          /\ env.SLURM_ARRAY_TASK_COUNT # None
        IN  /\ argNumTasks # None => (num_tasks = argNumTasks /\ task_id = argTaskId)
            /\ fromEnv => /\ num_tasks = <<int(env.SLURM_ARRAY_TASK_COUNT[1])>>
                          /\ task_id = <<int(env.SLURM_ARRAY_TASK_ID[1])>>
            /\ (argNumTasks = None /\ ~fromEnv) => (num_tasks = <<1>> /\ task_id = <<0>>)
            /\ argTaskId # None => task_id = argTaskId

\* C6: no command is started more than once; preprocess_data has returned
\* only if every command was started and its subprocess exited with status 0;
\* once a subprocess has exited non-zero the call never returns normally, and
\* the error it ends with after the pool ran is the subprocess error.
C6_PoolOutcome ==
    /\ \A i \in 1..Len(started) : started[i] <= 1
    /\ pp_pc = "returned" =>
          \A i \in 1..Len(final_cmds) : started[i] = 1 /\ exitCode[i] = <<0>>
    /\ (\E i \in 1..Len(exitCode) : exitCode[i] # None /\ exitCode[i] # <<0>>) =>
          pp_pc # "returned"
    /\ (pp_pc = "raised" /\ Built) =>
          /\ pp_err = "CalledProcessError"
          /\ \E i \in 1..Len(exitCode) : exitCode[i] # None /\ exitCode[i] # <<0>>

C6_Witness ==
    /\ pp_pc = "raised"
    /\ pp_err = "CalledProcessError"
    /\ \E i \in 1..Len(exitCode) : exitCode[i] = <<0>>
    /\ \E i \in 1..Len(exitCode) : exitCode[i] = <<1>>
    /\ \E i \in 1..Len(started) : started[i] = 0

\* C7: the commands are, in order, one per non-empty entry of the selected
\* bucket: command i carries task_id, a single --input that is the i-th
\* non-empty entry and a single --output-prefix that is output_dir joined with
\* that entry's base name; empty entries ("" or None) give no command.
C7_CommandsMatchBucket ==
    Built =>
        LET bucket == get_shard_list(listing, num_tasks[1])[task_id[1] + 1]
            ne == NonEmptyEntries(bucket)
        IN  /\ Len(final_cmds) = Len(ne)
            /\ \A i \in 1..Len(final_cmds) :
                  LET c == final_cmds[i].cmd
                  IN  /\ final_cmds[i].task_id = task_id[1]
                      /\ Cardinality(FlagIdx(c, "--input")) = 1
                      /\ Cardinality(FlagIdx(c, "--output-prefix")) = 1
                      /\ \A k \in FlagIdx(c, "--input") : c[k].val = ne[i]
                      /\ \A k \in FlagIdx(c, "--output-prefix") :
                            c[k].val = output_dir \o <<ne[i][Len(ne[i])]>>

C7_Witness ==
    /\ Built
    /\ Len(final_cmds) = 2
    /\ \E k \in 1..Len(listing) : listing[k] = <<"">>
    /\ Len(listing) = 3
    /\ num_tasks = <<1>>

\* C8: a command carries --vocab, --merge-file and --append-eod, all three
\* with the supplied paths, when both paths are supplied and non-empty, and
\* none of the three otherwise; the passthrough arguments, when given, are the
\* last words of the command, after every generated word.
TokenizerFlagNames == {"--vocab", "--merge-file", "--append-eod"}
GeneratedNames ==
    {cmd[1].flag, cmd[2].flag, "--input", "--output-prefix", "--dataset-impl",
     "--tokenizer-library", "--tokenizer-type"} \cup TokenizerFlagNames
====
